---- MODULE Spec2Model ----
(***************************************************************************)
(* Model of repo_batch_update.py: the batch loop of main(), the            *)
(* per-repository pipeline process_repo() and the substitution engine      *)
(* perform_replacements().  External collaborators (git sub-processes,     *)
(* the pull-request REST call, the file system) are the environment: each  *)
(* call's exit status is chosen nondeterministically, and every call made  *)
(* is recorded in `calls`.                                                 *)
(***************************************************************************)
EXTENDS Integers, Sequences, FiniteSets, TLC

VARIABLES
    config,          \* the Config record produced by load_config
    repos,           \* main: the repository list read from repo_list_file
    idx,             \* main: number of loop iterations already finished
    successful,      \* main: counter
    failed,          \* main: counter
    log_entries,     \* main: lines appended by process_repo (header excluded)
    started,         \* repositories for which process_repo has been entered
    pc,              \* position in main / process_repo
    cwd,             \* the process's current working directory (a path)
    original_dir,    \* process_repo: cwd saved at line 642
    entry_dir,       \* cwd at the moment process_repo was entered
    exc,             \* the exception being handled, or NoExc
    retval,          \* value returned by process_repo, or NoRet
    dirs,            \* repositories whose directory exists under work_dir
    worktree,        \* the tree perform_replacements left in the directory
                     \* of the invocation under way
    calls,           \* collaborator calls made by the current process_repo
    snapshot,        \* engine runs: the tree before perform_replacements
    report,          \* engine runs: what perform_replacements returned
    workers,         \* interleaved runs: each process_repo call's pc and locals
    acted,           \* interleaved runs: the directories each call operated in
    log_file,        \* the file at config.log_file: whether written, its lines
    auth             \* the credentials file and global credential helper

vars == <<config, repos, idx, successful, failed, log_entries, started, pc,
          cwd, original_dir, entry_dir, exc, retval,
          dirs, worktree, calls, snapshot, report, workers, acted,
          log_file, auth>>

----------------------------------------------------------------------------
(* Bounds *)

MaxRepos == 2
MaxCommits == 1
MaxText == 3

----------------------------------------------------------------------------
(* Text: a str is a sequence of one-character strings. *)

Lower(c) ==
    CASE c = "F" -> "f"
      [] c = "O" -> "o"
      [] c = "X" -> "x"
      [] OTHER -> c

\* equality of two characters under re.IGNORECASE / plain comparison
CharEq(a, b, case_sensitive) ==
    IF case_sensitive THEN a = b ELSE Lower(a) = Lower(b)

\* does search_str occur in content at 1-based position i
MatchAt(content, search_str, i, case_sensitive) ==
    /\ i + Len(search_str) - 1 <= Len(content)
    /\ \A k \in 1..Len(search_str) :
           CharEq(content[i + k - 1], search_str[k], case_sensitive)

\* str.count / len(list(pattern.finditer)): non-overlapping matches,
\* scanning left to right (an empty pattern matches at every gap)
RECURSIVE CountFrom_Overlapping(_, _, _, _)
CountFrom_Overlapping(content, search_str, i, case_sensitive) ==
    IF i > Len(content) THEN (IF search_str = <<>> THEN 1 ELSE 0)
    ELSE IF search_str = <<>> \/ MatchAt(content, search_str, i, case_sensitive)
         THEN 1 + CountFrom_Overlapping(content, search_str, i + 1, case_sensitive)
    ELSE CountFrom_Overlapping(content, search_str, i + 1, case_sensitive)

RECURSIVE CountFrom(_, _, _, _)
CountFrom(content, search_str, i, case_sensitive) ==
    IF i > Len(content) THEN (IF search_str = <<>> THEN 1 ELSE 0)
    ELSE IF search_str = <<>>
         THEN 1 + CountFrom(content, search_str, i + 1, case_sensitive)
    ELSE IF MatchAt(content, search_str, i, case_sensitive)
         THEN 1 + CountFrom(content, search_str, i + Len(search_str), case_sensitive)
    ELSE CountFrom(content, search_str, i + 1, case_sensitive)

\* str.replace / pattern.sub with the already expanded replacement text
RECURSIVE ReplaceFrom(_, _, _, _, _)
ReplaceFrom(content, search_str, repl, i, case_sensitive) ==
    IF i > Len(content) THEN (IF search_str = <<>> THEN repl ELSE <<>>)
    ELSE IF search_str = <<>>
         THEN repl \o <<content[i]>>
                   \o ReplaceFrom(content, search_str, repl, i + 1, case_sensitive)
    ELSE IF MatchAt(content, search_str, i, case_sensitive)
         THEN repl \o ReplaceFrom(content, search_str, repl,
                                  i + Len(search_str), case_sensitive)
    ELSE <<content[i]>>
             \o ReplaceFrom(content, search_str, repl, i + 1, case_sensitive)

\* re's parsing of a replacement template: a backslash starts an escape.
\* "\\" is a backslash, "\n" a newline; a backslash before any other
\* character of the model's alphabet, or at the end, raises re.error.
TemplateError == <<"re.error">>
RECURSIVE ExpandTemplate(_)
ExpandTemplate(replace_str) ==
    IF replace_str = <<>> THEN <<>>
    ELSE IF Head(replace_str) # "\\"
         THEN LET rest == ExpandTemplate(Tail(replace_str))
              IN  IF rest = TemplateError THEN TemplateError
                  ELSE <<Head(replace_str)>> \o rest
    ELSE IF Len(replace_str) = 1 THEN TemplateError
    ELSE LET e    == replace_str[2]
             rest == ExpandTemplate(Tail(Tail(replace_str)))
         IN  IF e \notin {"\\", "n"} \/ rest = TemplateError THEN TemplateError
             ELSE <<(IF e = "n" THEN "\n" ELSE "\\")>> \o rest

\* open(..., 'r', encoding='utf-8', errors='ignore').read(): bytes that are
\* not valid UTF-8 are dropped; universal newlines turn "\r\n" into "\n".
InvalidByte == "\\xff"
RECURSIVE Decode(_)
Decode(data) ==
    IF data = <<>> THEN <<>>
    ELSE IF Head(data) = InvalidByte THEN Decode(Tail(data))
    ELSE IF Head(data) = "\r" /\ Len(data) >= 2 /\ data[2] = "\n"
         THEN Decode(Tail(data))
    ELSE IF Head(data) = "\r" THEN <<"\n">> \o Decode(Tail(data))
    ELSE <<Head(data)>> \o Decode(Tail(data))

\* open(..., 'w', encoding='utf-8').write(): every modelled character encodes
Encode(text) == text

----------------------------------------------------------------------------
(* File system: a working tree is a sequence of entries in the order rglob  *)
(* walks them; an entry is [path, isfile, data, mode].  A path is a         *)
(* sequence of component names, a name is a sequence of characters.         *)

GitDir == <<".", "g", "i", "t">>
NameATxt == <<"a", ".", "t">>
NameBPy == <<"b", ".", "p">>
NameSub == <<"s">>
NameCfg == <<"c">>

\* fnmatch of one path component against a pattern whose only wildcard is *
RECURSIVE Glob(_, _)
Glob(pattern, name) ==
    IF pattern = <<>> THEN name = <<>>
    ELSE IF Head(pattern) = "*"
         THEN \/ Glob(Tail(pattern), name)
              \/ (name # <<>> /\ Glob(pattern, Tail(name)))
    ELSE /\ name # <<>>
         /\ Head(name) = Head(pattern)
         /\ Glob(Tail(pattern), Tail(name))

\* indices of the entries repo_path.rglob(pattern) yields, in walk order
RECURSIVE RGlobFrom(_, _, _)
RGlobFrom(tree, pattern, k) ==
    IF k > Len(tree) THEN <<>>
    ELSE (IF Glob(pattern, tree[k].path[Len(tree[k].path)]) THEN <<k>> ELSE <<>>)
             \o RGlobFrom(tree, pattern, k + 1)

RGlob(tree, pattern) == RGlobFrom(tree, pattern, 1)

\* lines 336-341: all_files, the concatenation of the rglobs of each pattern
RECURSIVE AllFiles(_, _)
AllFiles(tree, file_patterns) ==
    IF file_patterns = <<>> THEN <<>>
    ELSE RGlob(tree, Head(file_patterns)) \o AllFiles(tree, Tail(file_patterns))

IsTextFile_TopLevelOnly(entry) ==
    /\ entry.isfile
    /\ entry.path[1] # GitDir

\* lines 344-345: keep regular files with no '.git' path component
IsTextFile(entry) ==
    /\ entry.isfile
    /\ \A j \in 1..Len(entry.path) : entry.path[j] # GitDir

RECURSIVE TextFiles(_, _)
TextFiles(tree, all_files) ==
    IF all_files = <<>> THEN <<>>
    ELSE (IF IsTextFile(tree[Head(all_files)]) THEN <<Head(all_files)>> ELSE <<>>)
             \o TextFiles(tree, Tail(all_files))

\* lines 377-397: [count, new], or the marker for `continue` / an exception
Skip == [count |-> 0, new |-> <<"skip">>]
Substitute(content, search_str, replace_str, case_sensitive) ==
    IF case_sensitive
    THEN IF CountFrom(content, search_str, 1, TRUE) = 0 THEN Skip
         ELSE [count |-> CountFrom(content, search_str, 1, TRUE),
               new   |-> ReplaceFrom(content, search_str, replace_str, 1, TRUE)]
    ELSE IF CountFrom(content, search_str, 1, FALSE) = 0 THEN Skip
         ELSE IF ExpandTemplate(replace_str) = TemplateError THEN Skip
         ELSE [count |-> CountFrom(content, search_str, 1, FALSE),
               new   |-> ReplaceFrom(content, search_str,
                                     ExpandTemplate(replace_str), 1, FALSE)]

\* one write of a file: what was on disk, what was read, what was written
Write(k, rule, disk, content, new) ==
    [file |-> k, rule |-> rule[1], disk |-> disk, read |-> content,
     written |-> Encode(new)]

ProcessFile_AlwaysWrite(st, k, rule, case_sensitive) ==
    LET entry   == st.tree[k]
        content == Decode(entry.data)
        sub     == Substitute(content, rule[1], rule[2], case_sensitive)
        new     == IF sub = Skip THEN content ELSE sub.new
    IN  IF entry.mode # "rw" THEN st
        ELSE [tree     |-> [st.tree EXCEPT ![k].data = Encode(new)],
              modified |-> st.modified + 1,
              count    |-> st.count + sub.count,
              details  |-> Append(st.details,
                                  [file |-> entry.path, rule |-> rule[1],
                                   matches |-> sub.count]),
              writes   |-> Append(st.writes,
                                  Write(k, rule, entry.data, content, new))]

\* lines 371-444: one file under one rule; st = [tree, modified, count,
\* details, writes].  A file that cannot be read ("noread") raises at line 374,
\* one that cannot be written ("ro") at line 425; both handlers `continue`.
ProcessFile(st, k, rule, case_sensitive) ==
    LET entry   == st.tree[k]
        content == Decode(entry.data)
        sub     == Substitute(content, rule[1], rule[2], case_sensitive)
    IN  IF entry.mode = "noread" THEN st
        ELSE IF sub = Skip THEN st
        ELSE IF ~(sub.count > 0 /\ sub.new # content) THEN st
        ELSE IF entry.mode = "ro" THEN st
        ELSE [tree     |-> [st.tree EXCEPT ![k].data = Encode(sub.new)],
              modified |-> st.modified + 1,
              count    |-> st.count + sub.count,
              details  |-> Append(st.details,
                                  [file |-> entry.path, rule |-> rule[1],
                                   matches |-> sub.count]),
              writes   |-> Append(st.writes,
                                  Write(k, rule, entry.data, content, sub.new))]

RECURSIVE ProcessRule_StopOnError(_, _, _, _)
ProcessRule_StopOnError(st, text_files, rule, case_sensitive) ==
    IF text_files = <<>> THEN st
    ELSE IF st.tree[Head(text_files)].mode # "rw" THEN st
    ELSE ProcessRule_StopOnError(
             ProcessFile(st, Head(text_files), rule, case_sensitive),
             Tail(text_files), rule, case_sensitive)

RECURSIVE ProcessRule(_, _, _, _)
ProcessRule(st, text_files, rule, case_sensitive) ==
    IF text_files = <<>> THEN st
    ELSE ProcessRule(ProcessFile(st, Head(text_files), rule, case_sensitive),
                     Tail(text_files), rule, case_sensitive)

\* lines 363-461: every rule in declaration order; the per-rule totals are
\* added to files_modified and total_replacements
RECURSIVE ProcessRules(_, _, _, _)
ProcessRules(st, text_files, replacements, case_sensitive) ==
    IF replacements = <<>> THEN st
    ELSE LET r == ProcessRule([tree |-> st.tree, modified |-> 0, count |-> 0,
                               details |-> st.details, writes |-> st.writes],
                              text_files, Head(replacements), case_sensitive)
         IN  ProcessRules([tree     |-> r.tree,
                           modified |-> st.modified + r.modified,
                           count    |-> st.count + r.count,
                           details  |-> r.details,
                           writes   |-> r.writes],
                          text_files, Tail(replacements), case_sensitive)

\* perform_replacements: the returned tuple and the tree left on disk
perform_replacements(cfg, tree) ==
    LET text_files == TextFiles(tree, AllFiles(tree, cfg.file_patterns))
        empty == [files_searched |-> 0, files_modified |-> 0,
                  total_replacements |-> 0, change_details |-> <<>>,
                  tree |-> tree, text_files |-> <<>>, writes |-> <<>>]
        st == ProcessRules([tree |-> tree, modified |-> 0, count |-> 0,
                            details |-> <<>>, writes |-> <<>>],
                           text_files, cfg.replacements, cfg.case_sensitive)
    IN  IF Len(cfg.replacements) = 0 THEN empty
        ELSE IF Len(text_files) = 0 THEN empty
        ELSE [files_searched |-> Len(text_files),
              files_modified |-> st.modified,
              total_replacements |-> st.count,
              change_details |-> st.details,
              tree |-> st.tree, text_files |-> text_files,
              writes |-> st.writes]

\* no perform_replacements call has returned yet
NoReport == [files_searched |-> 0, files_modified |-> 0,
             total_replacements |-> 0, change_details |-> <<>>,
             tree |-> <<>>, text_files |-> <<>>, writes |-> <<>>]

----------------------------------------------------------------------------
(* Inputs *)

\* the k-th line of repo_list_file; the lines of one list are distinct
RepoName(k) ==
    CASE k = 1 -> "r1"
      [] k = 2 -> "r2"
      [] k = 3 -> "r3"
      [] OTHER -> "r4"

RepoLists == {[k \in 1..n |-> RepoName(k)] : n \in 0..MaxRepos}

\* directories an earlier run can have left under work_dir
LeftOvers == SUBSET {RepoName(1), RepoName(2)}

TxtFoo == <<"f", "o", "o">>
TxtBar == <<"b", "a", "r">>
TxtX == <<"X">>
TxtMixed == <<"F", "O", "O", " ", "f", "o", "o">>
TxtNone == <<"z">>

RuleLists ==
    { <<>>,
      << <<TxtFoo, TxtX>>, <<TxtX, TxtBar>> >> }

PatternLists ==
    { << <<"*">> >> }

GitEntry == [path |-> <<GitDir, NameCfg>>, isfile |-> TRUE,
             data |-> TxtFoo, mode |-> "rw"]

\* the trees a clone can have materialised
Trees ==
    { << [path |-> <<GitDir>>, isfile |-> FALSE, data |-> <<>>, mode |-> "rw"],
         GitEntry >>,
      << GitEntry,
         [path |-> <<NameATxt>>, isfile |-> TRUE, data |-> TxtFoo, mode |-> "rw"],
         [path |-> <<NameSub>>, isfile |-> FALSE, data |-> <<>>, mode |-> "rw"],
         [path |-> <<NameSub, NameBPy>>, isfile |-> TRUE, data |-> TxtMixed,
          mode |-> "rw"] >>,
      << GitEntry,
         [path |-> <<NameATxt>>, isfile |-> TRUE, data |-> TxtNone, mode |-> "rw"] >> }

StartDirs == { <<"home", "user">> }

SourceBranches == {"", "develop"}

PrUrl == "https://github.com/o/r/pull/1"

\* config.log_file before line 872 has written it
NoLogFile == [written |-> FALSE, lines |-> <<>>]

NoDir == <<"?">>
NoExc == "none"
NoRet == "none"

\* str(e) of the exceptions the pipeline can see
NameErrorMsg == "name 'log_failed_repo' is not defined"
OSErrorMsg == "[Errno 2] No such file or directory"

\* stderr texts of `git checkout -b`: two failures and the success message
StderrExists == "fatal: a branch named 'b' already exists"
StderrOther == "fatal: not a valid branch name"
StderrSwitched == "Switched to a new branch 'b'"

BranchStderrs(rc) ==
    IF rc = 0 THEN {StderrSwitched} ELSE {StderrExists, StderrOther}

ContainsAlreadyExists_AnyFailure(stderr) == stderr # StderrSwitched

\* 'already exists' in result.stderr
ContainsAlreadyExists(stderr) == stderr = StderrExists

\* what the call log keeps of the stderr of `git checkout -b`
ExistsFlag(stderr) == IF stderr = StderrExists THEN 1 ELSE 0

ReturnCodes == {0, 1}

\* a CompletedProcess, as recorded in the call log
Call(op, rc, out) == [op |-> op, rc |-> rc, out |-> out, raised |-> FALSE]
Raised(op) == [op |-> op, rc |-> 1, out |-> 0, raised |-> TRUE]

\* one line of log_entries: f"{repo_name}\t{text}", text kept as its pieces
Line(repo_name, prefix, detail) ==
    [repo |-> repo_name, prefix |-> prefix, detail |-> detail]

FailedPrefix == "Failed: "

\* Path(config.work_dir) / repo_name, and os.chdir on a relative path
RepoPath(cfg, repo_name) == <<cfg.work_dir, repo_name>>
Chdir(dir, rel) == dir \o rel

----------------------------------------------------------------------------
(* State after main has read the repository list (lines 823-857) *)

Configs ==
    [source_branch : SourceBranches,
     create_pr : BOOLEAN,
     case_sensitive : {TRUE},
     replacements : RuleLists,
     file_patterns : PatternLists,
     work_dir : {"repos_temp"}]

Init ==
    /\ config \in Configs
    /\ repos \in RepoLists
    /\ cwd \in StartDirs
    /\ idx = 0
    /\ successful = 0
    /\ failed = 0
    /\ log_entries = <<>>
    /\ started = <<>>
    /\ pc = "loop"
    /\ original_dir = NoDir
    /\ entry_dir = NoDir
    /\ exc = NoExc
    /\ retval = NoRet
    /\ dirs \in LeftOvers
    /\ worktree = <<>>
    /\ calls = <<>>
    /\ snapshot = <<>>
    /\ report = NoReport
    /\ workers = <<>>
    /\ acted = <<>>
    /\ log_file = NoLogFile
    /\ auth = "installed"

repo_name == repos[idx + 1]

engineVars == <<snapshot, report>>

parVars == <<workers, acted>>

outVars == <<log_file, auth>>

mainVars == <<config, repos, idx, successful, failed, started, engineVars,
              parVars, outVars>>

----------------------------------------------------------------------------
(* process_repo: shared exits *)

Return_Retry(value, lines) ==
    /\ retval' = value
    /\ log_entries' = log_entries \o lines
    /\ pc' = "clone"
    /\ UNCHANGED exc

\* a `return value` inside the try block, after appending lines
Return(value, lines) ==
    /\ retval' = value
    /\ log_entries' = log_entries \o lines
    /\ pc' = "finally"
    /\ UNCHANGED exc

\* an exception leaves the try block for the handler at line 798
Raise(message) ==
    /\ exc' = message
    /\ pc' = "except"
    /\ UNCHANGED <<retval, log_entries>>

Goto(label) ==
    /\ pc' = label
    /\ UNCHANGED <<retval, log_entries, exc>>

----------------------------------------------------------------------------
(* main, lines 859-864, and process_repo, lines 630-642 *)

EnterProcessRepo ==
    /\ pc = "loop"
    /\ idx < Len(repos)
    /\ started' = Append(started, repo_name)
    /\ entry_dir' = cwd
    /\ original_dir' = cwd
    /\ calls' = <<>>
    /\ retval' = NoRet
    /\ pc' = "clone"
    /\ UNCHANGED <<config, repos, idx, successful, failed, log_entries, cwd,
                   exc, dirs, worktree, engineVars, parVars, outVars>>

CloneFailed_Negative(res) == res.rc < 0

\* line 649
CloneFailed(res) == res.rc # 0

\* lines 645-654: git clone refuses a destination that already has content
Clone ==
    /\ pc = "clone"
    /\ \/ /\ calls' = Append(calls, Raised("clone"))
          /\ Raise(OSErrorMsg)
          /\ UNCHANGED dirs
       \/ \E rc \in ReturnCodes :
              LET res == Call("clone", rc, 0) IN
              /\ repo_name \in dirs => rc # 0
              /\ calls' = Append(calls, res)
              /\ IF CloneFailed(res)
                 THEN /\ Return(FALSE, <<Line(repo_name, FailedPrefix, "Clone error")>>)
                      /\ UNCHANGED dirs
                 ELSE /\ Goto("chdir")
                      /\ dirs' = IF rc = 0 THEN dirs \cup {repo_name} ELSE dirs
    /\ UNCHANGED <<mainVars, cwd, original_dir, entry_dir, worktree>>

\* lines 656-661, 716: os.chdir(repo_path) raises when the directory is absent
ChangeDir ==
    /\ pc = "chdir"
    /\ IF repo_name \in dirs
       THEN /\ cwd' = Chdir(cwd, RepoPath(config, repo_name))
            /\ Goto(IF config.source_branch # "" THEN "checkout_source"
                    ELSE "show_current")
       ELSE /\ Raise(OSErrorMsg)
            /\ UNCHANGED cwd
    /\ UNCHANGED <<mainVars, original_dir, entry_dir, dirs, worktree, calls>>

\* lines 662-672: log_failed_repo is not defined anywhere, calling it raises
CheckoutSource ==
    /\ pc = "checkout_source"
    /\ \/ /\ calls' = Append(calls, Raised("checkout_source"))
          /\ Raise(OSErrorMsg)
       \/ \E rc \in ReturnCodes :
              /\ calls' = Append(calls, Call("checkout_source", rc, 0))
              /\ IF rc # 0 THEN Raise(NameErrorMsg) ELSE Goto("fetch")
    /\ UNCHANGED <<mainVars, cwd, original_dir, entry_dir, dirs, worktree>>

\* lines 674-681: a failed fetch is only a warning
Fetch ==
    /\ pc = "fetch"
    /\ \/ /\ calls' = Append(calls, Raised("fetch"))
          /\ Raise(OSErrorMsg)
       \/ \E rc \in ReturnCodes :
              /\ calls' = Append(calls, Call("fetch", rc, 0))
              /\ Goto("count_behind")
    /\ UNCHANGED <<mainVars, cwd, original_dir, entry_dir, dirs, worktree>>

\* lines 688-691: commits_behind and int(commits_behind) > 0
IsBehind(res) == res.rc = 0 /\ res.out > 0

\* lines 683-692, 714-715: git rev-list --count HEAD..origin/<source>
CountBehind ==
    /\ pc = "count_behind"
    /\ \/ /\ calls' = Append(calls, Raised("count_behind"))
          /\ Raise(OSErrorMsg)
       \/ \E rc \in ReturnCodes, n \in 0..MaxCommits :
              LET res == Call("count_behind", rc, IF rc = 0 THEN n ELSE 0) IN
              /\ calls' = Append(calls, res)
              /\ Goto(IF IsBehind(res) THEN "count_ahead" ELSE "create_branch")
    /\ UNCHANGED <<mainVars, cwd, original_dir, entry_dir, dirs, worktree>>

SafeToPull_Diverged(res) == res.rc = 0

\* lines 698-705: pull only when the count succeeded and is not positive
SafeToPull(res) == res.rc = 0 /\ ~(res.out > 0)

\* lines 694-705: git rev-list --count origin/<source>..HEAD
CountAhead ==
    /\ pc = "count_ahead"
    /\ \/ /\ calls' = Append(calls, Raised("count_ahead"))
          /\ Raise(OSErrorMsg)
       \/ \E rc \in ReturnCodes, n \in 0..MaxCommits :
              LET res == Call("count_ahead", rc, IF rc = 0 THEN n ELSE 0) IN
              /\ calls' = Append(calls, res)
              /\ Goto(IF SafeToPull(res) THEN "pull" ELSE "create_branch")
    /\ UNCHANGED <<mainVars, cwd, original_dir, entry_dir, dirs, worktree>>

Pull_Fatal ==
    /\ pc = "pull"
    /\ \/ /\ calls' = Append(calls, Raised("pull"))
          /\ Raise(OSErrorMsg)
       \/ \E rc \in ReturnCodes :
              /\ calls' = Append(calls, Call("pull", rc, 0))
              /\ IF rc # 0
                 THEN Return(FALSE, <<Line(repo_name, FailedPrefix, "Pull error")>>)
                 ELSE Goto("create_branch")
    /\ UNCHANGED <<mainVars, cwd, original_dir, entry_dir, dirs, worktree>>

\* lines 706-713: a failed pull is only a warning
Pull ==
    /\ pc = "pull"
    /\ \/ /\ calls' = Append(calls, Raised("pull"))
          /\ Raise(OSErrorMsg)
       \/ \E rc \in ReturnCodes :
              /\ calls' = Append(calls, Call("pull", rc, 0))
              /\ Goto("create_branch")
    /\ UNCHANGED <<mainVars, cwd, original_dir, entry_dir, dirs, worktree>>

\* lines 717-721: git branch --show-current, result only logged
ShowCurrent ==
    /\ pc = "show_current"
    /\ \/ /\ calls' = Append(calls, Raised("show_current"))
          /\ Raise(OSErrorMsg)
       \/ \E rc \in ReturnCodes :
              /\ calls' = Append(calls, Call("show_current", rc, 0))
              /\ Goto("create_branch")
    /\ UNCHANGED <<mainVars, cwd, original_dir, entry_dir, dirs, worktree>>

\* lines 723-729, 736-741: git checkout -b <branch_name>
CreateBranch ==
    /\ pc = "create_branch"
    /\ \/ /\ calls' = Append(calls, Raised("create_branch"))
          /\ Raise(OSErrorMsg)
       \/ \E rc \in ReturnCodes : \E stderr \in BranchStderrs(rc) :
              /\ calls' = Append(calls, Call("create_branch", rc, ExistsFlag(stderr)))
              /\ IF rc # 0 /\ ContainsAlreadyExists(stderr)
                 THEN Goto("checkout_existing")
                 ELSE IF rc # 0
                 THEN Return(FALSE, <<Line(repo_name, FailedPrefix,
                                           "Branch creation error")>>)
                 ELSE Goto("substitute")
    /\ UNCHANGED <<mainVars, cwd, original_dir, entry_dir, dirs, worktree>>

\* lines 730-735: git checkout <branch_name>
CheckoutExisting ==
    /\ pc = "checkout_existing"
    /\ \/ /\ calls' = Append(calls, Raised("checkout_existing"))
          /\ Raise(OSErrorMsg)
       \/ \E rc \in ReturnCodes :
              /\ calls' = Append(calls, Call("checkout_existing", rc, 0))
              /\ IF rc # 0
                 THEN Return(FALSE, <<Line(repo_name, FailedPrefix,
                                           "Branch checkout error")>>)
                 ELSE Goto("substitute")
    /\ UNCHANGED <<mainVars, cwd, original_dir, entry_dir, dirs, worktree>>

NoChangesMade_Never(files_modified) == files_modified < 0

\* line 747
NoChangesMade(files_modified) == files_modified = 0

\* lines 744-750: perform_replacements works on the tree at Path.cwd(); what
\* the clone put there is observed here, where it is first read
SubstituteStep ==
    /\ pc = "substitute"
    /\ \/ /\ calls' = Append(calls, Raised("substitute"))
          /\ Raise(OSErrorMsg)
          /\ UNCHANGED worktree
       \/ \E tree \in Trees :
              LET r == perform_replacements(config, tree) IN
              /\ calls' = Append(calls, Call("substitute", 0, r.files_modified))
              /\ worktree' = r.tree
              /\ IF NoChangesMade(r.files_modified)
                 THEN Return(TRUE, <<Line(repo_name, "",
                          "No changes (replacements did not match any content)")>>)
                 ELSE Goto("stage")
    /\ UNCHANGED <<mainVars, cwd, original_dir, entry_dir, dirs>>

\* lines 752-754: git add -A; the CompletedProcess is discarded
StageAll ==
    /\ pc = "stage"
    /\ \/ /\ calls' = Append(calls, Raised("stage"))
          /\ Raise(OSErrorMsg)
       \/ \E rc \in ReturnCodes :
              /\ calls' = Append(calls, Call("stage", rc, 0))
              /\ Goto("commit")
    /\ UNCHANGED <<mainVars, cwd, original_dir, entry_dir, dirs, worktree>>

\* line 760
CommitFailed(res) == res.rc # 0

\* lines 756-765: git commit -m <commit_message>
Commit ==
    /\ pc = "commit"
    /\ \/ /\ calls' = Append(calls, Raised("commit"))
          /\ Raise(OSErrorMsg)
       \/ \E rc \in ReturnCodes :
              LET res == Call("commit", rc, 0) IN
              /\ calls' = Append(calls, res)
              /\ IF CommitFailed(res)
                 THEN Return(FALSE, <<Line(repo_name, FailedPrefix, "Commit error")>>)
                 ELSE Goto("push")
    /\ UNCHANGED <<mainVars, cwd, original_dir, entry_dir, dirs, worktree>>

PushFailed_Negative(res) == res.rc < 0

\* line 771
PushFailed(res) == res.rc # 0

\* lines 767-777: git push -u origin <branch_name>
Push ==
    /\ pc = "push"
    /\ \/ /\ calls' = Append(calls, Raised("push"))
          /\ Raise(OSErrorMsg)
       \/ \E rc \in ReturnCodes :
              LET res == Call("push", rc, 0) IN
              /\ calls' = Append(calls, res)
              /\ IF PushFailed(res)
                 THEN Return(FALSE, <<Line(repo_name, FailedPrefix, "Push error")>>)
                 ELSE Goto("publish")
    /\ UNCHANGED <<mainVars, cwd, original_dir, entry_dir, dirs, worktree>>

PublishReturn_Strict(res) == res.rc = 0

\* lines 788-796: the value returned after create_github_pr gave res
PublishReturn(res) == TRUE

\* lines 788-791: the line recorded after create_github_pr gave res
PublishLine(repo, res) ==
    IF res.rc = 0 THEN Line(repo, "", PrUrl)
    ELSE Line(repo, "", "Branch pushed (PR creation failed)")

\* lines 779-796: create_github_pr returns the URL or None, it never raises
Publish ==
    /\ pc = "publish"
    /\ IF config.create_pr
       THEN \E rc \in ReturnCodes :
                LET res == Call("create_pr", rc, 0) IN
                /\ calls' = Append(calls, res)
                /\ Return(PublishReturn(res), <<PublishLine(repo_name, res)>>)
       ELSE /\ calls' = calls
            /\ Return(TRUE, <<Line(repo_name, "", "Branch pushed (PR not created)")>>)
    /\ UNCHANGED <<mainVars, cwd, original_dir, entry_dir, dirs, worktree>>

ExceptLines_Silent(repo, e) == <<>>

\* line 802: the lines the handler appends for exception e
ExceptLines(repo, e) == <<Line(repo, FailedPrefix, e)>>

Except_ReturnsTrue ==
    /\ pc = "except"
    /\ log_entries' = log_entries \o ExceptLines(repo_name, exc)
    /\ retval' = TRUE
    /\ exc' = NoExc
    /\ pc' = "finally"
    /\ UNCHANGED <<mainVars, cwd, original_dir, entry_dir, dirs, worktree, calls>>

\* lines 798-803
Except ==
    /\ pc = "except"
    /\ log_entries' = log_entries \o ExceptLines(repo_name, exc)
    /\ retval' = FALSE
    /\ exc' = NoExc
    /\ pc' = "finally"
    /\ UNCHANGED <<mainVars, cwd, original_dir, entry_dir, dirs, worktree, calls>>

RestoredDir_NoChdir(original, current) == current

\* line 806: the directory the finally block changes to
RestoredDir(original, current) == original

\* lines 804-808
Finally ==
    /\ pc = "finally"
    /\ cwd' = RestoredDir(original_dir, cwd)
    /\ pc' = "returned"
    /\ UNCHANGED <<mainVars, log_entries, original_dir, entry_dir, exc, retval,
                   dirs, worktree, calls>>

CountOutcome_Lost(value, s, f) ==
    IF value THEN [successful |-> s + 1, failed |-> f]
    ELSE [successful |-> s, failed |-> f]

\* lines 865-867: the counters after process_repo returned value
CountOutcome(value, s, f) ==
    IF value THEN [successful |-> s + 1, failed |-> f]
    ELSE [successful |-> s, failed |-> f + 1]

\* main, lines 864-869; nothing reads the tree of a finished invocation
\* again, from here on only the existence of its directory is kept
ProcessRepoReturn ==
    /\ pc = "returned"
    /\ successful' = CountOutcome(retval, successful, failed).successful
    /\ failed' = CountOutcome(retval, successful, failed).failed
    /\ idx' = idx + 1
    /\ pc' = "loop"
    /\ original_dir' = NoDir
    /\ worktree' = <<>>
    /\ UNCHANGED <<config, repos, log_entries, started, cwd, entry_dir, exc,
                   retval, dirs, calls, engineVars, parVars, outVars>>

\* main, lines 871-873: after the loop the log file is written
WriteLogFile ==
    /\ pc = "loop"
    /\ idx = Len(repos)
    /\ log_file' = [written |-> TRUE, lines |-> log_entries]
    /\ pc' = "done"
    /\ UNCHANGED <<config, repos, idx, successful, failed, log_entries, started,
                   cwd, original_dir, entry_dir, exc, retval, dirs, worktree,
                   calls, engineVars, parVars, auth>>

Next ==
    \/ EnterProcessRepo
    \/ Clone
    \/ ChangeDir
    \/ CheckoutSource
    \/ Fetch
    \/ CountBehind
    \/ CountAhead
    \/ Pull
    \/ ShowCurrent
    \/ CreateBranch
    \/ CheckoutExisting
    \/ SubstituteStep
    \/ StageAll
    \/ Commit
    \/ Push
    \/ Publish
    \/ Except
    \/ Finally
    \/ ProcessRepoReturn
    \/ WriteLogFile

Spec == Init /\ [][Next]_vars

----------------------------------------------------------------------------
(* main from setup_git_auth to its end (lines 838-876) with token           *)
(* authentication, and two things the environment can do to it: deliver     *)
(* SIGINT (Python raises KeyboardInterrupt) and start a git process that    *)
(* never exits.                                                             *)

InitMain ==
    /\ config \in Configs
    /\ cwd \in StartDirs
    /\ dirs \in LeftOvers
    /\ repos = <<>>
    /\ pc = "setup_auth"
    /\ auth = "none"
    /\ log_file = NoLogFile
    /\ idx = 0
    /\ successful = 0
    /\ failed = 0
    /\ log_entries = <<>>
    /\ started = <<>>
    /\ original_dir = NoDir
    /\ entry_dir = NoDir
    /\ exc = NoExc
    /\ retval = NoRet
    /\ worktree = <<>>
    /\ calls = <<>>
    /\ snapshot = <<>>
    /\ report = NoReport
    /\ workers = <<>>
    /\ acted = <<>>

mainFrame == <<config, idx, successful, failed, log_entries, started, cwd,
               original_dir, entry_dir, exc, retval, dirs, worktree, calls,
               engineVars, parVars>>

\* lines 839 and 245-266: the credentials file is written and the global
\* credential.helper is pointed at it
SetupGitAuth ==
    /\ pc = "setup_auth"
    /\ auth' = "installed"
    /\ pc' = "read_list"
    /\ UNCHANGED <<mainFrame, repos, log_file>>

\* lines 842-857: open(config.repo_list_file) raises when the file is
\* missing; nothing in main catches it
ReadRepoList ==
    /\ pc = "read_list"
    /\ \/ /\ \E list \in RepoLists : repos' = list
          /\ pc' = "loop"
       \/ /\ pc' = "crashed"
          /\ UNCHANGED repos
    /\ UNCHANGED <<mainFrame, log_file, auth>>

\* lines 871-873: open(config.log_file, 'w') raises (directory missing, no
\* permission); nothing in main catches it
WriteLogFailed ==
    /\ pc = "loop"
    /\ idx = Len(repos)
    /\ pc' = "crashed"
    /\ UNCHANGED <<mainFrame, repos, log_file, auth>>

\* lines 876 and 280-288
CleanupGitAuth ==
    /\ pc = "done"
    /\ auth' = "removed"
    /\ pc' = "exit"
    /\ UNCHANGED <<mainFrame, repos, log_file>>

\* the statements of process_repo's try block and handler
InTry ==
    {"clone", "chdir", "checkout_source", "fetch", "count_behind", "count_ahead",
     "pull", "show_current", "create_branch", "checkout_existing", "substitute",
     "stage", "commit", "push", "publish", "except"}

\* KeyboardInterrupt inside process_repo: it is not an Exception, so the
\* handler at 798 does not catch it; the finally block (804-806) restores the
\* directory and the exception leaves process_repo and main (859-876).
Interrupt ==
    /\ pc \in InTry
    /\ cwd' = RestoredDir(original_dir, cwd)
    /\ pc' = "interrupted"
    /\ UNCHANGED <<config, repos, idx, successful, failed, log_entries, started,
                   original_dir, entry_dir, exc, retval, dirs, worktree, calls,
                   engineVars, parVars, outVars>>

\* the statements that wait in subprocess.run for a git process
InSubprocess ==
    {"clone", "checkout_source", "fetch", "count_behind", "count_ahead", "pull",
     "show_current", "create_branch", "checkout_existing", "stage", "commit",
     "push"}

\* subprocess.run is called without timeout= (647-769): a git process that
\* never exits keeps process_repo waiting for good
Hang ==
    /\ pc \in InSubprocess
    /\ pc' = "hung"
    /\ UNCHANGED <<mainFrame, repos, outVars>>

NextMain ==
    \/ SetupGitAuth
    \/ ReadRepoList
    \/ Next
    \/ WriteLogFailed
    \/ CleanupGitAuth
    \/ Interrupt
    \/ Hang

SpecMain == InitMain /\ [][NextMain]_vars

----------------------------------------------------------------------------
(* perform_replacements on its own (lines 310-471): one call on a working   *)
(* tree, with the rules, the patterns and the file contents drawn from      *)
(* bounded sets.                                                            *)

TxtFooFoo == <<"f", "o", "o", "f", "o", "o">>
TxtThreeFoo == <<"f", "o", "o", " ", "F", "O", "O", " ", "f", "O", "o">>
TxtCapFoo == <<"F", "o", "o">>
TxtOO == <<"o", "o">>
TxtO == <<"o">>
TxtF == <<"f">>
TxtBackslashN == <<"\\", "n">>
TxtBackslash == <<"\\">>

\* every text of at most MaxText characters over a three-letter alphabet
EngineTexts ==
    UNION {[1..n -> {"f", "o", "F"}] : n \in 0..MaxText}
        \cup {TxtFooFoo, TxtThreeFoo}

\* REPLACEMENTS as load_config parses them: (search, replace) pairs in order
EngineRuleLists ==
    RuleLists \cup
    { << <<TxtFoo, TxtBar>> >>,
      << <<TxtCapFoo, TxtX>> >>,
      << <<TxtOO, TxtF>> >>,
      << <<TxtO, TxtOO>> >>,
      << <<TxtF, TxtBackslashN>> >>,
      << <<TxtO, TxtBackslash>> >> }

\* FILE_PATTERNS: one pattern, two patterns that overlap, one that misses
EnginePatternLists ==
    { << <<"*">> >>,
      << <<"*", ".", "t">>, <<"a", "*">> >>,
      << <<"*", ".", "p">> >> }

NameGitX == <<".", "g", "i", "t", "x">>

\* a tree with a nested .git directory and a name that only starts with .git
NestedTree ==
    << GitEntry,
       [path |-> <<NameATxt>>, isfile |-> TRUE, data |-> TxtFoo, mode |-> "rw"],
       [path |-> <<NameGitX>>, isfile |-> TRUE, data |-> TxtFoo, mode |-> "rw"],
       [path |-> <<NameSub>>, isfile |-> FALSE, data |-> <<>>, mode |-> "rw"],
       [path |-> <<NameSub, GitDir>>, isfile |-> FALSE, data |-> <<>>,
        mode |-> "rw"],
       [path |-> <<NameSub, GitDir, NameATxt>>, isfile |-> TRUE, data |-> TxtFoo,
        mode |-> "rw"],
       [path |-> <<NameSub, NameBPy>>, isfile |-> TRUE, data |-> TxtMixed,
        mode |-> "rw"] >>

\* a file that cannot be read and one that cannot be written, before one
\* that can
ErrorTree ==
    << [path |-> <<NameATxt>>, isfile |-> TRUE, data |-> TxtFoo,
        mode |-> "noread"],
       [path |-> <<NameBPy>>, isfile |-> TRUE, data |-> TxtFoo, mode |-> "ro"],
       [path |-> <<NameGitX>>, isfile |-> TRUE, data |-> TxtFoo, mode |-> "rw"] >>

\* a file with a byte that is not valid UTF-8 and a CR LF line ending
ByteTree ==
    << [path |-> <<NameATxt>>, isfile |-> TRUE,
        data |-> <<InvalidByte>> \o TxtFoo \o <<"\r", "\n">> \o TxtCapFoo,
        mode |-> "rw"] >>

EngineTrees ==
    Trees \cup {NestedTree, ErrorTree, ByteTree}
        \cup { << GitEntry,
                  [path |-> <<NameATxt>>, isfile |-> TRUE, data |-> t,
                   mode |-> "rw"] >> : t \in EngineTexts }

EngineConfigs ==
    [source_branch : {""},
     create_pr : {FALSE},
     case_sensitive : BOOLEAN,
     replacements : EngineRuleLists,
     file_patterns : EnginePatternLists,
     work_dir : {"repos_temp"}]

InitEngine ==
    /\ config \in EngineConfigs
    /\ worktree \in EngineTrees
    /\ snapshot = worktree
    /\ report = NoReport
    /\ pc = "engine"
    /\ cwd \in StartDirs
    /\ repos = <<>>
    /\ idx = 0
    /\ successful = 0
    /\ failed = 0
    /\ log_entries = <<>>
    /\ started = <<>>
    /\ original_dir = NoDir
    /\ entry_dir = NoDir
    /\ exc = NoExc
    /\ retval = NoRet
    /\ dirs = {}
    /\ calls = <<>>
    /\ workers = <<>>
    /\ acted = <<>>
    /\ log_file = NoLogFile
    /\ auth = "installed"

\* lines 310-471: the whole call, the tree it leaves and the tuple it returns
EngineRun ==
    /\ pc = "engine"
    /\ LET r == perform_replacements(config, worktree)
       IN  /\ worktree' = r.tree
           /\ report' = r
    /\ pc' = "engine_done"
    /\ UNCHANGED <<config, repos, idx, successful, failed, log_entries, started,
                   cwd, original_dir, entry_dir, exc, retval, dirs, calls,
                   snapshot, parVars, outVars>>

\* the tool run once more on the tree the previous run left
EngineRerun ==
    /\ pc = "engine_done"
    /\ snapshot' = worktree
    /\ LET r == perform_replacements(config, worktree)
       IN  /\ worktree' = r.tree
           /\ report' = r
    /\ pc' = "engine_rerun"
    /\ UNCHANGED <<config, repos, idx, successful, failed, log_entries, started,
                   cwd, original_dir, entry_dir, exc, retval, dirs, calls,
                   parVars, outVars>>

NextEngine == EngineRun \/ EngineRerun

SpecEngine == InitEngine /\ [][NextEngine]_vars

----------------------------------------------------------------------------
(* process_repo called for two repositories by two threads of one process:  *)
(* each call runs its own statements in order (workers[w].pc), the steps of *)
(* the two calls interleave.  The current directory is the process's, so    *)
(* cwd is shared; original_dir is a local of each call.  Here dirs holds    *)
(* absolute paths, and acted[w] the directories in which the operations of  *)
(* call w ran.  source_branch is empty and create_pr is off.                *)

Workers == {1, 2}

StartDir == <<"home", "user">>

ParConfigs ==
    [source_branch : {""},
     create_pr : {FALSE},
     case_sensitive : {TRUE},
     replacements : RuleLists \ {<<>>},
     file_patterns : PatternLists,
     work_dir : {"repos_temp"}]

\* the directory git clone creates for repo when it is run in directory dir
CloneTarget(dir, cfg, repo) == Chdir(dir, RepoPath(cfg, repo))

InitParallel ==
    /\ config \in ParConfigs
    /\ cwd = StartDir
    /\ dirs = {StartDir, Chdir(StartDir, <<config.work_dir>>)}
    /\ workers = [w \in Workers |->
                     [pc |-> "idle", original_dir |-> NoDir, retval |-> NoRet]]
    /\ acted = [w \in Workers |-> {}]
    /\ log_file = NoLogFile
    /\ auth = "installed"
    /\ log_entries = <<>>
    /\ repos = [w \in Workers |-> RepoName(w)]
    /\ idx = 0
    /\ successful = 0
    /\ failed = 0
    /\ started = <<>>
    /\ pc = "parallel"
    /\ original_dir = NoDir
    /\ entry_dir = NoDir
    /\ exc = NoExc
    /\ retval = NoRet
    /\ worktree = <<>>
    /\ calls = <<>>
    /\ snapshot = <<>>
    /\ report = NoReport

parFrame == <<config, repos, idx, successful, failed, started, pc, original_dir,
              entry_dir, exc, retval, worktree, calls, engineVars,
              outVars>>

\* call w moves to label; a git or file operation of the call ran in dir
ParGoto(w, label) == workers' = [workers EXCEPT ![w].pc = label]
ParActed(w, dir) == acted' = [acted EXCEPT ![w] = @ \cup {dir}]

\* `return value` of call w after appending lines
ParReturn(w, value, lines) ==
    /\ workers' = [workers EXCEPT ![w].pc = "finally", ![w].retval = value]
    /\ log_entries' = log_entries \o lines

\* lines 630-642
ParEnter(w) ==
    /\ workers[w].pc = "idle"
    /\ workers' = [workers EXCEPT ![w].pc = "clone", ![w].original_dir = cwd]
    /\ UNCHANGED <<parFrame, cwd, dirs, acted, log_entries>>

\* lines 645-652: git clone <url> <work_dir>/<repo_name>, a relative path
ParClone(w) ==
    /\ workers[w].pc = "clone"
    /\ LET target == CloneTarget(cwd, config, repos[w]) IN
       \E rc \in ReturnCodes :
           LET res == Call("clone", rc, 0) IN
           /\ target \in dirs => rc # 0
           /\ ParActed(w, target)
           /\ IF CloneFailed(res)
              THEN /\ ParReturn(w, FALSE,
                                <<Line(repos[w], FailedPrefix, "Clone error")>>)
                   /\ UNCHANGED dirs
              ELSE /\ ParGoto(w, "chdir")
                   /\ dirs' = dirs \cup {target, Chdir(cwd, <<config.work_dir>>)}
                   /\ UNCHANGED log_entries
    /\ UNCHANGED <<parFrame, cwd>>

\* lines 656-658: os.chdir(repo_path) changes the directory of the process
ParChangeDir(w) ==
    /\ workers[w].pc = "chdir"
    /\ IF CloneTarget(cwd, config, repos[w]) \in dirs
       THEN /\ cwd' = CloneTarget(cwd, config, repos[w])
            /\ ParGoto(w, "show_current")
       ELSE /\ ParGoto(w, "except")
            /\ UNCHANGED cwd
    /\ UNCHANGED <<parFrame, dirs, acted, log_entries>>

\* lines 717-721: git branch --show-current runs in the current directory
ParShowCurrent(w) ==
    /\ workers[w].pc = "show_current"
    /\ ParActed(w, cwd)
    /\ ParGoto(w, "create_branch")
    /\ UNCHANGED <<parFrame, cwd, dirs, log_entries>>

\* lines 723-729, 736-741
ParCreateBranch(w) ==
    /\ workers[w].pc = "create_branch"
    /\ ParActed(w, cwd)
    /\ \E rc \in ReturnCodes : \E stderr \in BranchStderrs(rc) :
           IF rc # 0 /\ ContainsAlreadyExists(stderr)
           THEN ParGoto(w, "checkout_existing") /\ UNCHANGED log_entries
           ELSE IF rc # 0
           THEN ParReturn(w, FALSE, <<Line(repos[w], FailedPrefix,
                                           "Branch creation error")>>)
           ELSE ParGoto(w, "substitute") /\ UNCHANGED log_entries
    /\ UNCHANGED <<parFrame, cwd, dirs>>

\* lines 730-735
ParCheckoutExisting(w) ==
    /\ workers[w].pc = "checkout_existing"
    /\ ParActed(w, cwd)
    /\ \E rc \in ReturnCodes :
           IF rc # 0
           THEN ParReturn(w, FALSE, <<Line(repos[w], FailedPrefix,
                                           "Branch checkout error")>>)
           ELSE ParGoto(w, "substitute") /\ UNCHANGED log_entries
    /\ UNCHANGED <<parFrame, cwd, dirs>>

\* lines 744-750 and 317: perform_replacements reads and writes under Path.cwd()
ParSubstitute(w) ==
    /\ workers[w].pc = "substitute"
    /\ ParActed(w, cwd)
    /\ \E tree \in Trees :
           LET r == perform_replacements(config, tree) IN
           IF NoChangesMade(r.files_modified)
           THEN ParReturn(w, TRUE, <<Line(repos[w], "",
                    "No changes (replacements did not match any content)")>>)
           ELSE ParGoto(w, "stage") /\ UNCHANGED log_entries
    /\ UNCHANGED <<parFrame, cwd, dirs>>

\* lines 752-754
ParStageAll(w) ==
    /\ workers[w].pc = "stage"
    /\ ParActed(w, cwd)
    /\ ParGoto(w, "commit")
    /\ UNCHANGED <<parFrame, cwd, dirs, log_entries>>

\* lines 756-765
ParCommit(w) ==
    /\ workers[w].pc = "commit"
    /\ ParActed(w, cwd)
    /\ \E rc \in ReturnCodes :
           IF CommitFailed(Call("commit", rc, 0))
           THEN ParReturn(w, FALSE,
                          <<Line(repos[w], FailedPrefix, "Commit error")>>)
           ELSE ParGoto(w, "push") /\ UNCHANGED log_entries
    /\ UNCHANGED <<parFrame, cwd, dirs>>

\* lines 767-796 with create_pr off
ParPush(w) ==
    /\ workers[w].pc = "push"
    /\ ParActed(w, cwd)
    /\ \E rc \in ReturnCodes :
           IF PushFailed(Call("push", rc, 0))
           THEN ParReturn(w, FALSE, <<Line(repos[w], FailedPrefix, "Push error")>>)
           ELSE ParReturn(w, TRUE, <<Line(repos[w], "",
                                          "Branch pushed (PR not created)")>>)
    /\ UNCHANGED <<parFrame, cwd, dirs>>

\* lines 798-803
ParExcept(w) ==
    /\ workers[w].pc = "except"
    /\ log_entries' = log_entries \o ExceptLines(repos[w], OSErrorMsg)
    /\ workers' = [workers EXCEPT ![w].pc = "finally", ![w].retval = FALSE]
    /\ UNCHANGED <<parFrame, cwd, dirs, acted>>

\* lines 804-806
ParFinally(w) ==
    /\ workers[w].pc = "finally"
    /\ cwd' = RestoredDir(workers[w].original_dir, cwd)
    /\ ParGoto(w, "returned")
    /\ UNCHANGED <<parFrame, dirs, acted, log_entries>>

NextParallel ==
    \/ \E w \in Workers : ParEnter(w)
    \/ \E w \in Workers : ParClone(w)
    \/ \E w \in Workers : ParChangeDir(w)
    \/ \E w \in Workers : ParShowCurrent(w)
    \/ \E w \in Workers : ParCreateBranch(w)
    \/ \E w \in Workers : ParCheckoutExisting(w)
    \/ \E w \in Workers : ParSubstitute(w)
    \/ \E w \in Workers : ParStageAll(w)
    \/ \E w \in Workers : ParCommit(w)
    \/ \E w \in Workers : ParPush(w)
    \/ \E w \in Workers : ParExcept(w)
    \/ \E w \in Workers : ParFinally(w)

SpecParallel == InitParallel /\ [][NextParallel]_vars

----------------------------------------------------------------------------
(* Properties *)

\* the repository of the most recent process_repo invocation
cur == started[Len(started)]

\* process_repo has left its try block (line and return value are settled)
Settled == pc \in {"finally", "returned", "loop", "done"} /\ started # <<>>

LastLine == log_entries[Len(log_entries)]

IsCall(i, op) == calls[i].op = op /\ ~calls[i].raised

\* C1: whatever stage fails or succeeds, by return or by a caught exception,
\* the working directory once process_repo has returned is the directory
\* that was current when process_repo was entered.
C1_CwdRestored ==
    (pc \in {"returned", "loop", "done"} /\ started # <<>>) => cwd = entry_dir

\* an invocation that changed directory and then left through the handler
C1_Witness ==
    /\ pc = "returned"
    /\ Len(calls) > 1
    /\ calls[Len(calls)].raised
    /\ cwd = entry_dir

\* C2: git pull is invoked only right after a successful behind count that
\* is positive and a successful ahead count that is zero; behind = 0 or
\* ahead > 0 is never followed by a pull.
C2_PullOnlyFastForward ==
    /\ \A i \in DOMAIN calls :
           calls[i].op = "pull" =>
               /\ config.source_branch # ""
               /\ i > 2
               /\ IsCall(i - 2, "count_behind")
               /\ calls[i - 2].rc = 0 /\ calls[i - 2].out > 0
               /\ IsCall(i - 1, "count_ahead")
               /\ calls[i - 1].rc = 0 /\ calls[i - 1].out = 0
    /\ \A i, j \in DOMAIN calls :
           (/\ IsCall(i, "count_behind") /\ calls[i].rc = 0 /\ calls[i].out = 0
            /\ j > i)
               => calls[j].op \notin {"pull", "count_ahead"}
    /\ \A i, j \in DOMAIN calls :
           (IsCall(i, "count_ahead") /\ calls[i].rc = 0 /\ calls[i].out > 0)
               => calls[j].op # "pull"

\* a fast-forward pull was made
C2_Witness ==
    \E i \in DOMAIN calls :
        /\ calls[i].op = "pull"
        /\ calls[i - 2].out > 0
        /\ calls[i - 1].out = 0

NoChangesText == "No changes (replacements did not match any content)"

\* C3: when the substitution reports zero files modified, process_repo
\* returns True with the no-changes line and makes no further collaborator
\* call (no stage, commit, push or pull-request creation).
C3_NoChangesStops ==
    \A i \in DOMAIN calls :
        (IsCall(i, "substitute") /\ calls[i].out = 0) =>
            /\ i = Len(calls)
            /\ Settled
            /\ retval = TRUE
            /\ Len(log_entries) = Len(started)
            /\ LastLine = Line(cur, "", NoChangesText)

\* a substitution over a tree with text files and rules that changed nothing
C3_Witness ==
    /\ pc = "returned"
    /\ Len(config.replacements) > 0
    /\ IsCall(Len(calls), "substitute")
    /\ calls[Len(calls)].out = 0
    /\ Len(worktree) > 1
    /\ retval = TRUE

\* C4: a clone with a non-zero exit status ends the pipeline with the
\* clone-error Failed line and return value False, and nothing else is
\* attempted for the repository.
C4_CloneFailureStops ==
    (calls # <<>> /\ IsCall(1, "clone") /\ calls[1].rc # 0) =>
        /\ Len(calls) = 1
        /\ Settled
        /\ retval = FALSE
        /\ Len(log_entries) = Len(started)
        /\ LastLine = Line(cur, FailedPrefix, "Clone error")

\* a clone failed for a repository that had not been cloned before
C4_Witness ==
    /\ pc = "returned"
    /\ IsCall(1, "clone")
    /\ calls[1].rc # 0
    /\ cur \notin dirs

\* C5: every invocation of process_repo appends exactly one line, for its
\* own repository: none while the try block runs, one from the moment the
\* block is left.
C5_OneLinePerRepo ==
    /\ Len(log_entries) =
           (IF pc \in {"loop", "finally", "returned", "done"}
            THEN Len(started) ELSE Len(started) - 1)
    /\ \A k \in DOMAIN log_entries : log_entries[k].repo = started[k]

\* two invocations are over, one of them ended by an exception
C5_Witness ==
    /\ pc = "returned"
    /\ Len(started) = 2
    /\ Len(log_entries) = 2
    /\ log_entries[1].detail = OSErrorMsg
    /\ log_entries[2].prefix = ""

\* C6: process_repo is entered for the repositories in list order, once
\* each, whatever the earlier ones did; the counters add up to the number
\* of finished iterations, and at the end to the number of repositories.
C6_BatchCoversAll ==
    /\ Len(started) <= Len(repos)
    /\ \A k \in DOMAIN started : started[k] = repos[k]
    /\ Len(started) = (IF pc \in {"loop", "done"} THEN idx ELSE idx + 1)
    /\ successful + failed = idx
    /\ pc = "done" => (started = repos /\ successful + failed = Len(repos))

\* a batch finished although its first repository raised an exception
C6_Witness ==
    /\ pc = "done"
    /\ Len(repos) = MaxRepos
    /\ log_entries[1].detail \in {OSErrorMsg, NameErrorMsg}
    /\ failed >= 1
    /\ successful >= 1

\* C7: when create_github_pr returns no URL the invocation still returns
\* True, and its line says the branch was pushed; it is not a Failed line.
C7_PrFailureIsSuccess ==
    \A i \in DOMAIN calls :
        (IsCall(i, "create_pr") /\ calls[i].rc # 0) =>
            /\ i = Len(calls)
            /\ retval = TRUE
            /\ Len(log_entries) = Len(started)
            /\ LastLine = Line(cur, "", "Branch pushed (PR creation failed)")
            /\ LastLine.prefix # FailedPrefix

\* pull-request creation was enabled and failed
C7_Witness ==
    /\ pc = "returned"
    /\ config.create_pr
    /\ IsCall(Len(calls), "create_pr")
    /\ calls[Len(calls)].rc # 0

\* the detail line 669 was written to record for a missing source branch
SourceBranchMissingDetail == "Source branch 'develop' not found"

\* C8: when the checkout of the requested source branch fails, the
\* invocation ends Failed with a line whose detail names the missing source
\* branch, and no fetch, branch creation, substitution, commit or push
\* follows.
C8_SourceBranchMissing ==
    \A i \in DOMAIN calls :
        (IsCall(i, "checkout_source") /\ calls[i].rc # 0) =>
            /\ i = Len(calls)
            /\ Settled =>
                   /\ retval = FALSE
                   /\ LastLine = Line(cur, FailedPrefix, SourceBranchMissingDetail)

\* C9: a non-zero exit of git add -A or of git commit ends the invocation
\* with the commit-error Failed line (unless a later call raised), and push
\* is never attempted after it.
C9_StageOrCommitFailure ==
    \A i \in DOMAIN calls :
        (calls[i].op \in {"stage", "commit"} /\ ~calls[i].raised /\ calls[i].rc # 0) =>
            /\ \A j \in DOMAIN calls : j > i => calls[j].op # "push"
            /\ (Settled /\ ~calls[Len(calls)].raised) =>
                   /\ retval = FALSE
                   /\ LastLine = Line(cur, FailedPrefix, "Commit error")

\* C10: push follows only a successful commit, pull-request creation only a
\* successful push; a failed push ends the invocation with the push-error
\* Failed line and create_github_pr is never called.
C10_PushThenPublish ==
    \A i \in DOMAIN calls :
        /\ calls[i].op = "push" =>
               (i > 1 /\ IsCall(i - 1, "commit") /\ calls[i - 1].rc = 0)
        /\ calls[i].op = "create_pr" =>
               (i > 1 /\ IsCall(i - 1, "push") /\ calls[i - 1].rc = 0)
        /\ (IsCall(i, "push") /\ calls[i].rc # 0) =>
               /\ i = Len(calls)
               /\ Settled
               /\ retval = FALSE
               /\ Len(log_entries) = Len(started)
               /\ LastLine = Line(cur, FailedPrefix, "Push error")

\* a push failed while pull-request creation was enabled
C10_Witness ==
    /\ pc = "returned"
    /\ config.create_pr
    /\ IsCall(Len(calls), "push")
    /\ calls[Len(calls)].rc # 0
    /\ IsCall(Len(calls) - 1, "commit")

\* C11: a failed branch creation whose stderr says the branch already
\* exists is followed by a checkout of that branch, and a successful
\* checkout leads on to the substitution; any other creation failure, and a
\* failed fallback checkout, end the invocation Failed with the branch line
\* and nothing after it.
C11_BranchFallback ==
    \A i \in DOMAIN calls :
        /\ (IsCall(i, "create_branch") /\ calls[i].rc # 0 /\ calls[i].out = 1) =>
               /\ i = Len(calls) => pc = "checkout_existing"
               /\ i < Len(calls) => calls[i + 1].op = "checkout_existing"
        /\ (IsCall(i, "checkout_existing") /\ calls[i].rc = 0) =>
               /\ i = Len(calls) => pc = "substitute"
               /\ i < Len(calls) => calls[i + 1].op = "substitute"
        /\ (IsCall(i, "create_branch") /\ calls[i].rc # 0 /\ calls[i].out = 0) =>
               /\ i = Len(calls)
               /\ Settled
               /\ retval = FALSE
               /\ Len(log_entries) = Len(started)
               /\ LastLine = Line(cur, FailedPrefix, "Branch creation error")
        /\ (IsCall(i, "checkout_existing") /\ calls[i].rc # 0) =>
               /\ i = Len(calls)
               /\ Settled
               /\ retval = FALSE
               /\ Len(log_entries) = Len(started)
               /\ LastLine = Line(cur, FailedPrefix, "Branch checkout error")
        /\ calls[i].op = "checkout_existing" =>
               (i > 1 /\ IsCall(i - 1, "create_branch")
                      /\ calls[i - 1].rc # 0 /\ calls[i - 1].out = 1)

\* the branch existed, its checkout succeeded and the substitution ran
C11_Witness ==
    \E i \in DOMAIN calls :
        /\ i + 2 <= Len(calls)
        /\ IsCall(i, "create_branch") /\ calls[i].rc # 0 /\ calls[i].out = 1
        /\ IsCall(i + 1, "checkout_existing") /\ calls[i + 1].rc = 0
        /\ IsCall(i + 2, "substitute")

\* C17: with no substitution rule configured no repository is touched: no
\* clone and no other collaborator call is made for any repository.
C17_NoRulesNoClone ==
    Len(config.replacements) = 0 => calls = <<>>

\* C18: once process_repo has returned, the directory work_dir/repo_name
\* that its clone created no longer exists.
C18_WorkDirRemoved ==
    (/\ pc \in {"returned", "loop", "done"}
     /\ calls # <<>>
     /\ IsCall(1, "clone")
     /\ calls[1].rc = 0) => cur \notin dirs

\* position of a collaborator operation in the stage order
Rank(op) ==
    CASE op = "clone" -> 1
      [] op = "checkout_source" -> 2
      [] op = "show_current" -> 2
      [] op = "fetch" -> 3
      [] op = "count_behind" -> 4
      [] op = "count_ahead" -> 5
      [] op = "pull" -> 6
      [] op = "create_branch" -> 7
      [] op = "checkout_existing" -> 8
      [] op = "substitute" -> 9
      [] op = "stage" -> 10
      [] op = "commit" -> 11
      [] op = "push" -> 12
      [] op = "create_pr" -> 13
      [] OTHER -> 0

\* C20: within one invocation the operations are made in strictly forward
\* stage order, none twice, and none after the outcome line of the
\* invocation has been recorded.
C20_ForwardOnly ==
    [][calls' # calls =>
          \/ calls' = <<>> /\ pc = "loop"
          \/ /\ Len(calls') = Len(calls) + 1
             /\ calls = SubSeq(calls', 1, Len(calls))
             /\ Rank(calls'[Len(calls')].op) > 0
             /\ calls # <<>> =>
                    Rank(calls'[Len(calls')].op) > Rank(calls[Len(calls)].op)
             /\ calls = <<>> => calls'[1].op = "clone"
             /\ Len(log_entries) = Len(started) - 1]_vars

\* an invocation went through every stage up to pull-request creation
C20_Witness ==
    /\ pc = "returned"
    /\ Len(calls) >= 11
    /\ calls[Len(calls)].op = "create_pr"
    /\ \E i \in DOMAIN calls : calls[i].op = "pull"
    /\ \E i \in DOMAIN calls : calls[i].op = "checkout_existing"

----------------------------------------------------------------------------
(* Properties of perform_replacements, checked under SpecEngine *)

EngineDone == pc = "engine_done"

Occurrences(seq, x) == Cardinality({i \in DOMAIN seq : seq[i] = x})

\* the entries the call selected, and the ones it could read and write
Selected == {report.text_files[i] : i \in DOMAIN report.text_files}
Writable == {k \in Selected : snapshot[k].mode = "rw"}

HasGitComponent(path) == \E j \in DOMAIN path : path[j] = GitDir

MatchesSomePattern(path) ==
    \E i \in DOMAIN config.file_patterns :
        Glob(config.file_patterns[i], path[Len(path)])

\* the text with case folded away when the comparison ignores case
Fold(text, case_sensitive) ==
    IF case_sensitive THEN text ELSE [i \in DOMAIN text |-> Lower(text[i])]

Occurs(content, pat, i, case_sensitive) ==
    /\ i + Len(pat) - 1 <= Len(content)
    /\ Fold(SubSeq(content, i, i + Len(pat) - 1), case_sensitive)
           = Fold(pat, case_sensitive)

\* start positions of the non-overlapping occurrences, leftmost first
RECURSIVE LeftmostStarts(_, _, _, _)
LeftmostStarts(content, pat, from, case_sensitive) ==
    LET c == {p \in from..Len(content) : Occurs(content, pat, p, case_sensitive)}
    IN  IF pat = <<>> \/ c = {} THEN {}
        ELSE LET m == CHOOSE p \in c : \A q \in c : p <= q
             IN  {m} \cup LeftmostStarts(content, pat, m + Len(pat),
                                         case_sensitive)

\* content with the occurrences at `starts` replaced by repl, taken verbatim
RECURSIVE Rewritten(_, _, _, _, _)
Rewritten(content, pat, repl, starts, i) ==
    IF i > Len(content) THEN <<>>
    ELSE IF i \in starts
         THEN repl \o Rewritten(content, pat, repl, starts, i + Len(pat))
    ELSE <<content[i]>> \o Rewritten(content, pat, repl, starts, i + 1)

\* every rule applied once, in declaration order, replacement taken verbatim
RECURSIVE RulesInOrder(_, _, _)
RulesInOrder(content, replacements, case_sensitive) ==
    IF replacements = <<>> THEN content
    ELSE LET rule == Head(replacements)
         IN  RulesInOrder(
                 Rewritten(content, rule[1], rule[2],
                           LeftmostStarts(content, rule[1], 1, case_sensitive), 1),
                 Tail(replacements), case_sensitive)

\* index of the first change_details entry about the file at `path`, 0 if none
FirstDetail(path) ==
    LET ds == {d \in DOMAIN report.change_details :
                   report.change_details[d].file = path}
    IN  IF ds = {} THEN 0 ELSE CHOOSE d \in ds : \A e \in ds : d <= e

\* C12: the selection contains each file exactly once, however many of the
\* patterns match it.
C12_EachFileOnce ==
    EngineDone =>
        \A i, j \in DOMAIN report.text_files :
            i # j => report.text_files[i] # report.text_files[j]

\* C13: no selected file has a path component named .git, at any depth, and
\* every regular file without such a component that matches one of the
\* patterns is selected.
C13_GitExcluded ==
    (EngineDone /\ Len(config.replacements) > 0) =>
        /\ \A k \in Selected :
               snapshot[k].isfile /\ ~HasGitComponent(snapshot[k].path)
        /\ \A k \in DOMAIN snapshot :
               (/\ snapshot[k].isfile
                /\ ~HasGitComponent(snapshot[k].path)
                /\ MatchesSomePattern(snapshot[k].path)) => k \in Selected

C13_Witness ==
    /\ EngineDone
    /\ Len(config.replacements) > 0
    /\ \E k \in DOMAIN snapshot :
           /\ snapshot[k].isfile
           /\ Len(snapshot[k].path) = 3
           /\ snapshot[k].path[2] = GitDir
           /\ MatchesSomePattern(snapshot[k].path)
           /\ k \notin Selected
    /\ \E k \in Selected : snapshot[k].path = <<NameGitX>>

\* C14: after the call, the content of every selected file is its content
\* before the call with every rule applied in the order the rules are declared.
C14_RulesInOrder ==
    (EngineDone /\ Len(config.replacements) > 0) =>
        \A k \in Writable :
            Decode(worktree[k].data)
                = RulesInOrder(Decode(snapshot[k].data), config.replacements,
                               config.case_sensitive)

\* C15: in case-sensitive mode the count reported for a file and a rule is the
\* number of non-overlapping occurrences of the search text, scanned left to
\* right, and the file is rewritten with exactly those occurrences replaced;
\* 'foo' -> 'bar' on 'foofoo' gives 'barbar' and a count of 2.
C15_CountNonOverlapping ==
    (EngineDone /\ config.case_sensitive /\ Len(config.replacements) > 0) =>
        \A k \in Writable :
            LET rule    == config.replacements[1]
                content == Decode(snapshot[k].data)
                starts  == LeftmostStarts(content, rule[1], 1, TRUE)
                d       == FirstDetail(snapshot[k].path)
            IN  /\ (starts # {} /\ rule[1] # rule[2]) =>
                       /\ d > 0
                       /\ report.change_details[d].rule = rule[1]
                       /\ report.change_details[d].matches = Cardinality(starts)
                /\ (/\ Len(config.replacements) = 1
                    /\ Occurrences(report.text_files, k) = 1) =>
                       /\ Decode(worktree[k].data)
                              = Rewritten(content, rule[1], rule[2], starts, 1)
                       /\ starts = {} => d = 0

C15_Witness ==
    /\ EngineDone
    /\ config.case_sensitive
    /\ config.replacements = << <<TxtFoo, TxtBar>> >>
    /\ \E k \in Selected :
           /\ snapshot[k].data = TxtFooFoo
           /\ worktree[k].data = TxtBar \o TxtBar
           /\ report.total_replacements = 2
           /\ report.change_details[FirstDetail(snapshot[k].path)].matches = 2

\* C16: in case-insensitive mode every occurrence, whatever its case, is
\* replaced by the replacement text taken verbatim, for every replacement text.
C16_VerbatimReplacement ==
    (EngineDone /\ ~config.case_sensitive /\ Len(config.replacements) = 1) =>
        \A k \in Writable :
            LET rule    == config.replacements[1]
                content == Decode(snapshot[k].data)
            IN  Occurrences(report.text_files, k) = 1 =>
                    Decode(worktree[k].data)
                        = Rewritten(content, rule[1], rule[2],
                                    LeftmostStarts(content, rule[1], 1, FALSE), 1)

----------------------------------------------------------------------------
(* Property of interleaved process_repo calls, checked under SpecParallel *)

\* the working directory of call w: <start>/<work_dir>/<its repository>
OwnDir(w) == CloneTarget(StartDir, config, repos[w])

\* C19: when the pipelines of two repositories run interleaved, every
\* version-control operation and every file read or write of a pipeline acts
\* in that pipeline's own working directory and nowhere else.
C19_OwnDirectoryOnly ==
    \A w \in Workers : acted[w] \subseteq {OwnDir(w)}

----------------------------------------------------------------------------
(* Further properties of the pipeline, checked under Spec *)

\* the step that follows a syncing operation that exited with a failure
AfterSyncFailure(op) == IF op = "fetch" THEN "count_behind" ELSE "create_branch"

SyncOps == {"fetch", "count_behind", "count_ahead", "pull"}

\* C21: a fetch, a commit-range count or a pull that exits with a failure
\* status records no outcome; the pipeline goes on, and reaches the creation
\* of the branch (after a failed fetch, through the count of commits behind).
C21_SyncFailuresNonFatal ==
    \A i \in DOMAIN calls :
        (calls[i].op \in SyncOps /\ ~calls[i].raised /\ calls[i].rc # 0) =>
            /\ i = Len(calls) =>
                   /\ pc = AfterSyncFailure(calls[i].op)
                   /\ Len(log_entries) = Len(started) - 1
            /\ i < Len(calls) => calls[i + 1].op = AfterSyncFailure(calls[i].op)

C21_Witness ==
    /\ \E i \in DOMAIN calls : IsCall(i, "fetch") /\ calls[i].rc # 0
    /\ \E i \in DOMAIN calls :
           /\ IsCall(i, "pull") /\ calls[i].rc # 0
           /\ i < Len(calls) /\ IsCall(i + 1, "create_branch")
    /\ \E i \in DOMAIN calls : IsCall(i, "push") /\ calls[i].rc = 0

----------------------------------------------------------------------------
(* Further properties of perform_replacements, checked under SpecEngine *)

EngineReturned == pc \in {"engine_done", "engine_rerun"}

\* no replacement text contains a backslash
NoBackslash ==
    \A r \in DOMAIN config.replacements :
        \A c \in DOMAIN config.replacements[r][2] :
            config.replacements[r][2][c] # "\\"

\* no rule's search text occurs in any selected file as the run found it
NothingMatches ==
    \A r \in DOMAIN config.replacements : \A k \in Selected :
        LeftmostStarts(Decode(snapshot[k].data), config.replacements[r][1], 1,
                       config.case_sensitive) = {}

\* C22: a rule writes a file only if its search text occurs in the file; when
\* no rule occurs in any file (as in a second run after the first left no
\* match) nothing is written and zero files modified is reported.
C22_NoMatchNoWrite ==
    EngineReturned =>
        /\ \A e \in DOMAIN report.writes :
               LeftmostStarts(report.writes[e].read, report.writes[e].rule, 1,
                              config.case_sensitive) # {}
        /\ NothingMatches =>
               /\ report.writes = <<>>
               /\ report.files_modified = 0
               /\ worktree = snapshot

C22_Witness ==
    /\ pc = "engine_rerun"
    /\ config.replacements = << <<TxtFoo, TxtBar>> >>
    /\ \E k \in Selected : snapshot[k].data = TxtBar \o TxtBar
    /\ NothingMatches
    /\ report.writes = <<>>

\* C23: a file that cannot be read or cannot be written is left as it was and
\* is not counted as modified; the files after it are still processed by the
\* rule, and the later rules still run on them.
C23_FileErrorsNonFatal ==
    (EngineDone /\ Len(config.replacements) > 0) =>
        /\ \A k \in Selected \ Writable :
               /\ worktree[k] = snapshot[k]
               /\ \A e \in DOMAIN report.writes : report.writes[e].file # k
        /\ report.files_modified = Len(report.writes)
        /\ (config.case_sensitive \/ NoBackslash) =>
               \A k \in Writable :
                   Occurrences(report.text_files, k) = 1 =>
                       Decode(worktree[k].data)
                           = RulesInOrder(Decode(snapshot[k].data),
                                          config.replacements,
                                          config.case_sensitive)

C23_Witness ==
    /\ EngineDone
    /\ snapshot = ErrorTree
    /\ config.replacements = << <<TxtFoo, TxtX>>, <<TxtX, TxtBar>> >>
    /\ Selected = {1, 2, 3}
    /\ worktree[1].data = TxtFoo
    /\ worktree[2].data = TxtFoo
    /\ worktree[3].data = TxtBar
    /\ report.files_modified = 2

\* C26: files_modified never exceeds files_searched.
C26_ModifiedAtMostSearched ==
    EngineDone => report.files_modified <= report.files_searched

\* C28: what a rule writes is what was on disk with the occurrences of the
\* search text replaced and everything else, byte for byte, as it was.
C28_RestPreserved ==
    (EngineDone /\ (config.case_sensitive \/ NoBackslash)) =>
        \A e \in DOMAIN report.writes :
            LET w == report.writes[e]
                rule == CHOOSE r \in {config.replacements[x] :
                                          x \in DOMAIN config.replacements} :
                            r[1] = w.rule
            IN  w.written
                    = Rewritten(w.disk, rule[1], rule[2],
                                LeftmostStarts(w.disk, rule[1], 1,
                                               config.case_sensitive), 1)

----------------------------------------------------------------------------
(* Return value and outcome line of process_repo, checked under Spec *)

SuccessDetails ==
    {NoChangesText, "Branch pushed (PR not created)",
     "Branch pushed (PR creation failed)", PrUrl}

FailedLines == {k \in DOMAIN log_entries : log_entries[k].prefix = FailedPrefix}

\* C27: process_repo returns False exactly when the line it appended for the
\* repository is a 'Failed: ...' line and True exactly when the line is a
\* no-changes, branch-pushed or pull-request-URL line; main's counters
\* therefore count the two kinds of line.
C27_ReturnAgreesWithLine ==
    /\ (pc \in {"finally", "returned"}) =>
           /\ retval \in BOOLEAN
           /\ Len(log_entries) = Len(started)
           /\ LastLine.repo = cur
           /\ retval = FALSE <=> LastLine.prefix = FailedPrefix
           /\ retval = TRUE <=>
                  (LastLine.prefix = "" /\ LastLine.detail \in SuccessDetails)
    /\ (pc \in {"loop", "done"}) =>
           /\ failed = Cardinality(FailedLines)
           /\ successful = Len(log_entries) - Cardinality(FailedLines)

C27_Witness ==
    /\ pc = "done"
    /\ Len(log_entries) = 2
    /\ log_entries[1].detail = NameErrorMsg
    /\ log_entries[2].detail = PrUrl
    /\ failed = 1
    /\ successful = 1

----------------------------------------------------------------------------
(* Properties of main, checked under SpecMain *)

\* main has ended: normally, by an uncaught exception, or interrupted
MainEnded == pc \in {"exit", "crashed", "interrupted"}

\* C24: a run never comes to rest inside a pipeline: as long as main has not
\* ended some statement can still run, also when a git process that was
\* started never exits by itself (its timeout ends the wait).
C24_NeverStuck == (~ENABLED NextMain) => MainEnded

\* C25: when the run is cancelled while repository k is in flight, the
\* outcomes recorded for repositories 1..k-1 are delivered to the log file
\* (and no later repository is started).
C25_CancelKeepsOutcomes ==
    (pc = "interrupted" /\ idx >= 1) =>
        /\ Len(started) = idx + 1
        /\ log_file.written
        /\ SubSeq(log_file.lines, 1, idx) = SubSeq(log_entries, 1, idx)

\* C29: once setup_git_auth has installed the credentials file and helper,
\* every way main ends has removed them.
C29_AuthCleanedUp ==
    (pc \in {"exit", "crashed", "interrupted"}) => auth # "installed"

=============================================================================
